---- MODULE Spec2Model ----
(***************************************************************************)
(* Model of the simulation-and-streaming engine of the Ampere Analyzer:    *)
(*   - OptimizedDataQueue and CircularDataBuffer                            *)
(*     (src/src/lib/simulation-optimizations.ts),                           *)
(*   - the search worker (src/unnamed/part_021, simulation.worker.js),      *)
(*   - the run pipeline of the component (src/unnamed/part_012).            *)
(*                                                                         *)
(* The module holds four specifications over one set of variables:         *)
(*   SpecQueue   any interleaving of enqueue / dequeue / clear on one      *)
(*               OptimizedDataQueue, with a millisecond clock;             *)
(*   SpecBuffer  any sequence of add / clear on one CircularDataBuffer;    *)
(*   SpecSim     one run of the worker's search, per parameter set;        *)
(*   SpecApp     onSubmit, worker messages, the 8 ms poll loop, unmount.   *)
(* A specification leaves the variables of the other parts unchanged.      *)
(***************************************************************************)
EXTENDS Integers, Sequences, FiniteSets, TLC

VARIABLES
  \* ---- OptimizedDataQueue (SpecQueue) ----
  queue,            \* this.queue: sequence of points, oldest first
  lastProcessTime,  \* this.lastProcessTime
  now,              \* performance.now(), in whole milliseconds
  nextPoint,        \* identity of the next point the producer enqueues
  qlog,             \* history: the last queue call, its arguments, result and pre-state
  lastDrainAt,      \* history: currentTime of the last dequeue that returned a point
  clearedSince,     \* history: clear() was called after that dequeue
  delivery,         \* history: the points returned and evicted while every drain was 'binary'
  \* ---- CircularDataBuffer (SpecBuffer) ----
  buffer,           \* this.buffer: slot index -> <<point>> or <<>> (never written)
  head,             \* this.head
  size,             \* this.size
  added,            \* history: points added since construction or the last clear
  nextAdd,          \* identity of the next point added
  \* ---- the worker's search (SpecSim) ----
  values,           \* the validated form values of the run
  pc,               \* position of the worker: "start", "iterLoop", "binLoop", "done"
  i,                \* loop index of the linear sweep
  low,              \* bisection: lower end of the interval
  high,             \* bisection: upper end of the interval
  maxSafeCurrent,   \* the worker's maxSafeCurrent
  iterationCount,   \* bisection: iterationCount
  posted,           \* messages posted by the worker in this run, in order
  results,          \* algorithm -> <<result of the completed run>> or <<>>
  \* ---- the component's run pipeline (SpecApp) ----
  mounted,              \* the component is mounted
  nRuns,                \* number of runs started so far; the latest run is nRuns
  runs,                 \* run -> its worker, message channel, queue and flag
  animationIntervalId,  \* animationIntervalId.current: 0 (null) or the run polled
  smoothAnimationRef,   \* smoothAnimationRef.current is set (the render loop runs)
  simulationResult,     \* the displayed result: 0 (null) or the run it came from
  renderTrigger,        \* renderTrigger
  effectPending,        \* the effect on renderTrigger has yet to run
  stopTimers,           \* runs whose 500 ms stop timeout is pending
  cancelSnap,           \* history: what had been emitted and queued at unmount
  overlapped,           \* history: runs whose worker was running when a later run started
  sequential,           \* history: runs started when every earlier run had completed
  \* ---- the smooth render loop (SpecRender) ----
  smoothDataStream,     \* the state smoothDataStream: the points drawn
  keyframeStartTime,    \* keyframeStartTime of startSmoothAnimation
  frameTime             \* the time of the last animation frame, in milliseconds

qvars == <<queue, lastProcessTime, now, nextPoint, qlog, lastDrainAt, clearedSince, delivery>>
bvars == <<buffer, head, size, added, nextAdd>>
avars == <<mounted, nRuns, runs, animationIntervalId, smoothAnimationRef, simulationResult,
           renderTrigger, effectPending, stopTimers, cancelSnap, overlapped, sequential>>
rvars == <<smoothDataStream, keyframeStartTime, frameTime>>
svars == <<values, pc, i, low, high, maxSafeCurrent, iterationCount, posted, results>>
vars  == <<queue, lastProcessTime, now, nextPoint, qlog, lastDrainAt, clearedSince, delivery,
           buffer, head, size, added, nextAdd,
           values, pc, i, low, high, maxSafeCurrent, iterationCount, posted, results,
           mounted, nRuns, runs, animationIntervalId, smoothAnimationRef, simulationResult,
           renderTrigger, effectPending, stopTimers, cancelSnap, overlapped, sequential,
           smoothDataStream, keyframeStartTime, frameTime>>

(***************************************************************************)
(* Bounds of the model.  maxSize and capacity are 1000 and 400 in the      *)
(* source; the classes are parametric in them and the model runs them at   *)
(* a small scale.                                                          *)
(***************************************************************************)
maxSize == 20
capacity == 3
MaxPoints == 23
MaxTime == 17
MaxAdds == 7

Null == <<>>
Some(x) == <<x>>

Min(a, b) == IF a < b THEN a ELSE b
Max(a, b) == IF a > b THEN a ELSE b

\* Array.prototype.slice(-n): the last n elements (the whole array when n >= length)
SliceLast(s, n) == IF Len(s) <= n THEN s ELSE SubSeq(s, Len(s) - n + 1, Len(s))

\* the elements of s after the first k
DropFirst(s, k) == SubSeq(s, k + 1, Len(s))

(***************************************************************************)
(* OptimizedDataQueue                                                      *)
(***************************************************************************)
DequeueInterval == 8

enqueueKeepOldest(q, dataPoint) ==
  LET pushed == Append(q, dataPoint)
  IN  IF Len(pushed) > maxSize THEN SubSeq(pushed, 1, maxSize) ELSE pushed

enqueueNoEvict(q, dataPoint) == Append(q, dataPoint)

\* enqueue(dataPoint): push, then keep the newest maxSize entries
enqueue(q, dataPoint) ==
  LET pushed == Append(q, dataPoint)
  IN  IF Len(pushed) > maxSize THEN SliceLast(pushed, maxSize) ELSE pushed

dequeueBinaryNewest(q, last, algorithm, currentTime) ==
  IF Len(q) = 0
    THEN [queue |-> q, lastProcessTime |-> last, ret |-> Null]
  ELSE IF currentTime - last < DequeueInterval
    THEN [queue |-> q, lastProcessTime |-> last, ret |-> Null]
  ELSE IF algorithm = "binary"
    THEN [queue |-> SubSeq(q, 1, Len(q) - 1), lastProcessTime |-> currentTime,
          ret |-> Some(q[Len(q)])]
    ELSE LET skipCount == Max(1, Len(q) \div 10)
         IN  [queue |-> DropFirst(q, skipCount), lastProcessTime |-> currentTime,
              ret |-> Some(q[skipCount])]

dequeueFirstOfBatch(q, last, algorithm, currentTime) ==
  IF Len(q) = 0
    THEN [queue |-> q, lastProcessTime |-> last, ret |-> Null]
  ELSE IF currentTime - last < DequeueInterval
    THEN [queue |-> q, lastProcessTime |-> last, ret |-> Null]
  ELSE IF algorithm = "binary"
    THEN [queue |-> Tail(q), lastProcessTime |-> currentTime, ret |-> Some(Head(q))]
    ELSE LET skipCount == Max(1, Len(q) \div 10)
         IN  [queue |-> DropFirst(q, skipCount), lastProcessTime |-> currentTime,
              ret |-> Some(q[1])]

dequeueNoTimeGuard(q, last, algorithm, currentTime) ==
  IF Len(q) = 0
    THEN [queue |-> q, lastProcessTime |-> last, ret |-> Null]
    ELSE IF algorithm = "binary"
      THEN [queue |-> Tail(q), lastProcessTime |-> currentTime, ret |-> Some(Head(q))]
      ELSE LET skipCount == Max(1, Len(q) \div 10)
           IN  [queue |-> DropFirst(q, skipCount), lastProcessTime |-> currentTime,
                ret |-> Some(q[skipCount])]

\* dequeue(algorithm, currentTime): the new queue, the new lastProcessTime and
\* the value returned
dequeue(q, last, algorithm, currentTime) ==
  IF Len(q) = 0
    THEN [queue |-> q, lastProcessTime |-> last, ret |-> Null]
  ELSE IF currentTime - last < DequeueInterval
    THEN [queue |-> q, lastProcessTime |-> last, ret |-> Null]
  ELSE IF algorithm = "binary"
    THEN [queue |-> Tail(q), lastProcessTime |-> currentTime, ret |-> Some(Head(q))]
    ELSE LET skipCount == Max(1, Len(q) \div 10)
             skipped == SubSeq(q, 1, skipCount)
         IN  [queue |-> DropFirst(q, skipCount), lastProcessTime |-> currentTime,
              ret |-> Some(skipped[Len(skipped)])]

\* clear() of the queue
queueClear == [queue |-> <<>>, lastProcessTime |-> 0]

Algorithms == {"binary", "iterative"}

NoCall == [op |-> "none", point |-> 0, algorithm |-> "none", time |-> 0, ret |-> Null,
           preQueue |-> <<>>, preLast |-> 0, preDrainAt |-> -1, preCleared |-> FALSE]

\* the elements of a sequence
Range(s) == {s[k] : k \in 1 .. Len(s)}

\* the delivery history once a drain was not 'binary' or clear() was called
NotTracked == [binaryOnly |-> FALSE, delivered |-> <<>>, evicted |-> {}]

QInit ==
  /\ queue = <<>>
  /\ lastProcessTime = 0
  /\ now = 0
  /\ nextPoint = 1
  /\ qlog = NoCall
  /\ lastDrainAt = -1
  /\ clearedSince = FALSE
  /\ delivery = [binaryOnly |-> TRUE, delivered |-> <<>>, evicted |-> {}]

\* the producer enqueues its next point
Enqueue ==
  /\ nextPoint <= MaxPoints
  /\ queue' = enqueue(queue, nextPoint)
  /\ nextPoint' = nextPoint + 1
  /\ qlog' = [NoCall EXCEPT !.op = "enqueue", !.point = nextPoint, !.time = now,
                            !.preQueue = queue, !.preLast = lastProcessTime,
                            !.preDrainAt = lastDrainAt, !.preCleared = clearedSince]
  /\ delivery' = IF delivery.binaryOnly
                    THEN [delivery EXCEPT !.evicted =
                            @ \cup ((Range(queue) \cup {nextPoint}) \ Range(queue'))]
                    ELSE delivery
  /\ UNCHANGED <<lastProcessTime, now, lastDrainAt, clearedSince>>

\* the consumer calls dequeue(algorithm, performance.now())
Dequeue ==
  \E algorithm \in Algorithms :
    LET r == dequeue(queue, lastProcessTime, algorithm, now)
    IN  /\ queue' = r.queue
        /\ lastProcessTime' = r.lastProcessTime
        /\ qlog' = [NoCall EXCEPT !.op = "dequeue", !.algorithm = algorithm, !.time = now,
                                  !.ret = r.ret, !.preQueue = queue,
                                  !.preLast = lastProcessTime,
                                  !.preDrainAt = lastDrainAt, !.preCleared = clearedSince]
        /\ lastDrainAt' = IF r.ret # Null THEN now ELSE lastDrainAt
        /\ clearedSince' = IF r.ret # Null THEN FALSE ELSE clearedSince
        /\ delivery' = IF r.ret = Null THEN delivery
                        ELSE IF algorithm = "binary" /\ delivery.binaryOnly
                          THEN [delivery EXCEPT !.delivered = Append(@, r.ret[1])]
                          ELSE NotTracked
        /\ UNCHANGED <<now, nextPoint>>

QueueClear ==
  /\ queue' = queueClear.queue
  /\ lastProcessTime' = queueClear.lastProcessTime
  /\ qlog' = [NoCall EXCEPT !.op = "clear", !.time = now, !.preQueue = queue,
                            !.preLast = lastProcessTime,
                            !.preDrainAt = lastDrainAt, !.preCleared = clearedSince]
  /\ clearedSince' = TRUE
  /\ delivery' = NotTracked
  /\ UNCHANGED <<now, nextPoint, lastDrainAt>>

\* the monotonic clock advances
Tick ==
  /\ \E d \in {1, DequeueInterval} :
       /\ now + d <= MaxTime
       /\ now' = now + d
  /\ UNCHANGED <<queue, lastProcessTime, nextPoint, qlog, lastDrainAt, clearedSince, delivery>>

(***************************************************************************)
(* CircularDataBuffer                                                      *)
(***************************************************************************)
Slots == 0 .. (capacity - 1)

addNoClamp(b, point) ==
  [buffer |-> [b.buffer EXCEPT ![b.head] = Some(point)],
   head   |-> (b.head + 1) % capacity,
   size   |-> b.size + 1]

\* add(point)
add(b, point) ==
  [buffer |-> [b.buffer EXCEPT ![b.head] = Some(point)],
   head   |-> (b.head + 1) % capacity,
   size   |-> Min(b.size + 1, capacity)]

getDisplayDataFromHead(b) ==
  IF b.size = 0 THEN <<>>
  ELSE [k \in 1 .. b.size |-> b.buffer[(b.head + (k - 1) + capacity) % capacity]]

\* getDisplayData(): the size retained slots, oldest first
getDisplayData(b) ==
  IF b.size = 0 THEN <<>>
  ELSE [k \in 1 .. b.size |->
          b.buffer[(b.head - b.size + (k - 1) + capacity) % capacity]]

\* getLastPoints(count): the loop runs from the oldest of the last count points
\* to the newest and puts each one in front of the result (unshift)
getLastPoints(b, count) ==
  LET actualCount == Min(count, b.size)
  IN  IF actualCount = 0 THEN <<>>
      ELSE [k \in 1 .. actualCount |-> b.buffer[(b.head - 1 - (k - 1) + capacity) % capacity]]

getPreviousOffByOne(b) ==
  IF b.size < 2 THEN Null ELSE b.buffer[(b.head - 1 + capacity) % capacity]

\* getPrevious()
getPrevious(b) ==
  IF b.size < 2 THEN Null ELSE b.buffer[(b.head - 2 + capacity) % capacity]

\* getCurrent()
getCurrent(b) ==
  IF b.size = 0 THEN Null ELSE b.buffer[(b.head - 1 + capacity) % capacity]

bufferClearHeadOnly(b) == [b EXCEPT !.head = 0]

\* clear() of the buffer: the slots keep their contents
bufferClear(b) == [b EXCEPT !.size = 0, !.head = 0]

\* new CircularDataBuffer(capacity)
NewBuffer == [buffer |-> [k \in Slots |-> Null], head |-> 0, size |-> 0]

Buf == [buffer |-> buffer, head |-> head, size |-> size]

BInit ==
  /\ buffer = NewBuffer.buffer
  /\ head = NewBuffer.head
  /\ size = NewBuffer.size
  /\ added = <<>>
  /\ nextAdd = 1

Add ==
  /\ nextAdd <= MaxAdds
  /\ LET b == add(Buf, nextAdd)
     IN  /\ buffer' = b.buffer
         /\ head' = b.head
         /\ size' = b.size
  /\ added' = Append(added, nextAdd)
  /\ nextAdd' = nextAdd + 1

BufferClear ==
  /\ LET b == bufferClear(Buf)
     IN  /\ buffer' = b.buffer
         /\ head' = b.head
         /\ size' = b.size
  /\ added' = <<>>
  /\ UNCHANGED nextAdd

(***************************************************************************)
(* Exact rational arithmetic.  The worker computes in IEEE doubles; the    *)
(* model computes the same expressions over the rationals, so a rounding   *)
(* error of the doubles is outside the model.  A rational is a record      *)
(* [n, d] in lowest terms with d > 0.                                      *)
(***************************************************************************)
Abs(x) == IF x < 0 THEN -x ELSE x

\* The operators below bind their operands to values before computing with
\* them (x \in {a}), so that an operand which is itself a long expression is
\* evaluated once.
RECURSIVE GCD(_, _)
GCD(a, b) ==
  IF b = 0 THEN a
  ELSE CHOOSE g \in {GCD(y, x % y) : x \in {a}, y \in {b}} : TRUE

Rat(n, d) ==
  CHOOSE q \in { [n |-> (IF y < 0 THEN -1 ELSE 1) * (x \div g),
                  d |-> (IF y < 0 THEN -1 ELSE 1) * (y \div g)] :
                 x \in {n}, y \in {d}, g \in {GCD(Abs(n), Abs(d))} } : TRUE

R(n) == [n |-> n, d |-> 1]

RMul(a, b) ==
  CHOOSE p \in { Rat((x.n \div GCD(Abs(x.n), y.d)) * (y.n \div GCD(Abs(y.n), x.d)),
                     (x.d \div GCD(Abs(y.n), x.d)) * (y.d \div GCD(Abs(x.n), y.d))) :
                 x \in {a}, y \in {b} } : TRUE

RDiv(a, b) ==
  CHOOSE q \in { RMul(a, IF y.n < 0 THEN [n |-> -y.d, d |-> -y.n]
                                    ELSE [n |-> y.d, d |-> y.n]) : y \in {b} } : TRUE

RAdd(a, b) ==
  CHOOSE t \in { Rat(x.n * (y.d \div GCD(x.d, y.d)) + y.n * (x.d \div GCD(x.d, y.d)),
                     (x.d \div GCD(x.d, y.d)) * y.d) :
                 x \in {a}, y \in {b} } : TRUE

RNeg(a) == CHOOSE m \in { [n |-> -x.n, d |-> x.d] : x \in {a} } : TRUE
RSub(a, b) == RAdd(a, RNeg(b))

\* a < b, decided on the continued fractions of a and b (no cross product)
RECURSIVE RLess(_, _)
RLess(a, b) ==
  \E x \in {a}, y \in {b} :
    \E qa \in {x.n \div x.d}, qb \in {y.n \div y.d}, ra \in {x.n % x.d}, rb \in {y.n % y.d} :
      IF qa # qb THEN qa < qb
      ELSE IF rb = 0 THEN FALSE
      ELSE IF ra = 0 THEN TRUE
      ELSE RLess([n |-> y.d, d |-> rb], [n |-> x.d, d |-> ra])

RLe(a, b) == ~RLess(b, a)
RMin(a, b) == CHOOSE m \in { IF RLess(y, x) THEN y ELSE x : x \in {a}, y \in {b} } : TRUE
RMax(a, b) == CHOOSE m \in { IF RLess(x, y) THEN y ELSE x : x \in {a}, y \in {b} } : TRUE

RECURSIVE Pow(_, _)
Pow(b, e) == IF e = 0 THEN 1 ELSE b * Pow(b, e - 1)

(***************************************************************************)
(* The form values a run is started with (formSchema, part_012:24-66) and  *)
(* the cooling solutions offered (constants.ts).                           *)
(***************************************************************************)
coolingMethods ==
  [ passive_small |-> [thermalResistance |-> R(50), coolingBudget |-> R(5)],
    water_cooling |-> [thermalResistance |-> R(1),  coolingBudget |-> R(500)] ]

isMosfetType(type) == type \in {"MOSFET", "GaN"}

\* values accepted by formSchema; an absent optional number is 0 (falsy)
FormValues ==
  { v \in [ transistorType     : {"MOSFET", "IGBT"},
            maxCurrent         : {Rat(1, 2), R(1)},
            maxVoltage         : {R(100)},
            powerDissipation   : {R(0), R(1)},
            rdsOn              : {R(0), R(2000)},
            vceSat             : {R(0), R(2)},
            riseTime           : {R(50)},
            fallTime           : {R(50)},
            rthJC              : {R(10)},
            maxTemperature     : {R(100)},
            simulationMode     : {"ftf", "temp", "budget"},
            precisionSteps     : {10, 12},
            switchingFrequency : {R(100)},
            coolingMethod      : {"passive_small", "water_cooling"},
            ambientTemperature : {R(-40), R(25), R(120)},
            coolingBudget      : {R(0), R(1)} ] :
      \* superRefine: Rds(on) for MOSFET types, Vce(sat) for the others, and a
      \* positive cooling budget in budget mode
      /\ isMosfetType(v.transistorType) => v.rdsOn.n > 0 /\ v.vceSat.n = 0
      /\ ~isMosfetType(v.transistorType) => v.vceSat.n > 0 /\ v.rdsOn.n = 0
      /\ v.simulationMode = "budget" <=> v.coolingBudget.n > 0 }

\* the message runSimulation posts to the worker
workerMessage(v, algorithm) ==
  LET selectedCooling == coolingMethods[v.coolingMethod]
  IN  [ maxCurrent |-> v.maxCurrent, maxVoltage |-> v.maxVoltage,
        powerDissipation |-> v.powerDissipation,
        riseTime |-> v.riseTime, fallTime |-> v.fallTime,
        switchingFrequency |-> v.switchingFrequency,
        maxTemperature |-> v.maxTemperature,
        ambientTemperature |-> v.ambientTemperature,
        totalRth |-> RAdd(v.rthJC, selectedCooling.thermalResistance),
        transistorType |-> v.transistorType,
        rdsOnOhms |-> RDiv(v.rdsOn, R(1000)),
        vceSat |-> v.vceSat,
        simulationMode |-> v.simulationMode,
        simulationAlgorithm |-> algorithm,
        precisionSteps |-> v.precisionSteps,
        effectiveCoolingBudget |->
          IF v.simulationMode = "budget" /\ v.coolingBudget.n # 0
            THEN v.coolingBudget ELSE selectedCooling.coolingBudget ]

(***************************************************************************)
(* The worker (simulation.worker.js)                                       *)
(***************************************************************************)
checkCurrentAnyLimit(e, current) ==
  LET pCond == IF isMosfetType(e.transistorType)
                 THEN RMul(RMul(RMul(current, current), e.rdsOnOhms), Rat(1, 2))
                 ELSE RMul(RMul(current, e.vceSat), Rat(1, 2))
      pSw == RMul(RMul(RMul(RMul(Rat(1, 2), e.maxVoltage), current),
                       RMul(RAdd(e.riseTime, e.fallTime), Rat(1, 1000000000))),
                  RMul(e.switchingFrequency, R(1000)))
      pTotal == RAdd(pCond, pSw)
      tempRise == RMul(pTotal, e.totalRth)
      finalTemp == RAdd(e.ambientTemperature, tempRise)
      failureReason ==
        IF RLess(e.maxTemperature, finalTemp) THEN "Thermal"
        ELSE IF e.powerDissipation.n # 0 /\ RLess(e.powerDissipation, pTotal)
          THEN "Power Dissipation"
        ELSE IF RLess(e.effectiveCoolingBudget, pTotal) /\ e.simulationMode # "temp"
          THEN "Cooling Budget"
        ELSE IF RLess(e.maxCurrent, current) THEN "Current"
        ELSE "null"
  IN  [ isSafe |-> failureReason = "null",
        failureReason |-> failureReason,
        finalTemperature |-> finalTemp,
        powerDissipation |-> [total |-> pTotal, conduction |-> pCond, switching |-> pSw] ]

checkCurrentCurrentFirst(e, current) ==
  LET pCond == IF isMosfetType(e.transistorType)
                 THEN RMul(RMul(RMul(current, current), e.rdsOnOhms), Rat(1, 2))
                 ELSE RMul(RMul(current, e.vceSat), Rat(1, 2))
      pSw == RMul(RMul(RMul(RMul(Rat(1, 2), e.maxVoltage), current),
                       RMul(RAdd(e.riseTime, e.fallTime), Rat(1, 1000000000))),
                  RMul(e.switchingFrequency, R(1000)))
      pTotal == RAdd(pCond, pSw)
      tempRise == RMul(pTotal, e.totalRth)
      finalTemp == RAdd(e.ambientTemperature, tempRise)
      failureReason ==
        IF RLess(e.maxCurrent, current) THEN "Current"
        ELSE IF RLess(e.maxTemperature, finalTemp) THEN "Thermal"
        ELSE IF e.powerDissipation.n # 0 /\ RLess(e.powerDissipation, pTotal)
          THEN "Power Dissipation"
        ELSE IF RLess(e.effectiveCoolingBudget, pTotal) /\ e.simulationMode # "temp"
          THEN "Cooling Budget"
        ELSE "null"
      fail == IF e.simulationMode = "temp" THEN RLess(e.maxTemperature, finalTemp)
              ELSE IF e.simulationMode = "budget"
                THEN RLess(e.effectiveCoolingBudget, pTotal)
              ELSE failureReason # "null"
  IN  [ isSafe |-> ~fail,
        failureReason |-> failureReason,
        finalTemperature |-> finalTemp,
        powerDissipation |-> [total |-> pTotal, conduction |-> pCond, switching |-> pSw] ]

\* checkCurrent(current) for the message e
checkCurrent(e, current) ==
  LET pCond == IF isMosfetType(e.transistorType)
                 THEN RMul(RMul(RMul(current, current), e.rdsOnOhms), Rat(1, 2))
                 ELSE RMul(RMul(current, e.vceSat), Rat(1, 2))
      pSw == RMul(RMul(RMul(RMul(Rat(1, 2), e.maxVoltage), current),
                       RMul(RAdd(e.riseTime, e.fallTime), Rat(1, 1000000000))),
                  RMul(e.switchingFrequency, R(1000)))
      pTotal == RAdd(pCond, pSw)
      tempRise == RMul(pTotal, e.totalRth)
      finalTemp == RAdd(e.ambientTemperature, tempRise)
      failureReason ==
        IF RLess(e.maxTemperature, finalTemp) THEN "Thermal"
        ELSE IF e.powerDissipation.n # 0 /\ RLess(e.powerDissipation, pTotal)
          THEN "Power Dissipation"
        ELSE IF RLess(e.effectiveCoolingBudget, pTotal) /\ e.simulationMode # "temp"
          THEN "Cooling Budget"
        ELSE IF RLess(e.maxCurrent, current) THEN "Current"
        ELSE "null"
      fail == IF e.simulationMode = "temp" THEN RLess(e.maxTemperature, finalTemp)
              ELSE IF e.simulationMode = "budget"
                THEN RLess(e.effectiveCoolingBudget, pTotal)
              ELSE failureReason # "null"
  IN  [ isSafe |-> ~fail,
        failureReason |-> failureReason,
        finalTemperature |-> finalTemp,
        powerDissipation |-> [total |-> pTotal, conduction |-> pCond, switching |-> pSw] ]

\* addDataPoint(current): the data point posted for a probed current
addDataPoint(e, current) ==
  LET dataPoint(pointResult) ==
        LET tempProgress ==
              RMul(RDiv(pointResult.finalTemperature, e.maxTemperature), R(100))
            budgetProgress ==
              RMul(RDiv(pointResult.powerDissipation.total, e.effectiveCoolingBudget), R(100))
            powerProgress ==
              IF e.powerDissipation.n > 0
                THEN RMul(RDiv(pointResult.powerDissipation.total, e.powerDissipation), R(100))
                ELSE R(0)
            currentProgress == RMul(RDiv(current, e.maxCurrent), R(100))
            progress ==
              IF e.simulationMode = "temp" THEN tempProgress
              ELSE IF e.simulationMode = "budget" THEN budgetProgress
              ELSE RMax(RMax(tempProgress, powerProgress),
                        RMax(budgetProgress, currentProgress))
            limitValue ==
              IF e.simulationMode = "temp" THEN e.maxTemperature
              ELSE IF e.simulationMode = "budget" THEN e.effectiveCoolingBudget
              ELSE R(100)
        IN  [ current |-> current,
              temperature |-> pointResult.finalTemperature,
              powerLoss |-> pointResult.powerDissipation.total,
              conductionLoss |-> pointResult.powerDissipation.conduction,
              switchingLoss |-> pointResult.powerDissipation.switching,
              progress |-> RMin(progress, R(100)),
              limitValue |-> limitValue,
              checkResult |-> pointResult ]
  \* const pointResult = checkCurrent(current), evaluated once
  IN  CHOOSE r \in {dataPoint(pointResult) : pointResult \in {checkCurrent(e, current)}} : TRUE

sweepCurrentDescending(e, step) ==
  RMul(R(e.precisionSteps - step),
       RDiv(RMul(e.maxCurrent, Rat(12, 10)), R(e.precisionSteps)))

\* linear sweep: the current probed at loop index step
sweepCurrent(e, step) ==
  RMul(R(step), RDiv(RMul(e.maxCurrent, Rat(12, 10)), R(e.precisionSteps)))

Tolerance == Rat(1, 100)

\* bisection: iterationCount < Math.log2(high - low) * 15 for the initial
\* interval width, i.e. 2^iterationCount < width^15
belowMaxIterations(width, count) ==
  /\ width.n > 0
  /\ Pow(2, count) <= (Pow(width.n, 15) - 1) \div Pow(width.d, 15)

\* bisection: the loop condition of the while
binaryContinues(e, lo, hi, count) ==
  /\ RLe(Tolerance, RSub(hi, lo))
  /\ belowMaxIterations(RMul(e.maxCurrent, Rat(3, 2)), count)

DataPointMsg(dp) == [type |-> "dataPoint", data |-> dp]
CompleteMsg(r) == [type |-> "complete", result |-> r]

\* the result object of a sweep that stopped at a failing point
failureResult(safe, dp) ==
  [ status |-> "success", maxSafeCurrent |-> safe,
    failureReason |-> dp.checkResult.failureReason,
    finalTemperature |-> dp.checkResult.finalTemperature,
    powerDissipation |-> dp.checkResult.powerDissipation ]

\* the result object of a search that ended without a recorded failure
successResult(e, safe) ==
  LET finalCheck == checkCurrent(e, safe)
  IN  [ status |-> "success", maxSafeCurrent |-> safe,
        failureReason |-> "null",
        finalTemperature |-> finalCheck.finalTemperature,
        powerDissipation |-> finalCheck.powerDissipation ]

E == workerMessage(values.form, values.algorithm)

SInit ==
  /\ values \in [form : FormValues, algorithm : {"iterative"}]
  /\ pc = "start"
  /\ i = 0
  /\ low = R(0)
  /\ high = R(0)
  /\ maxSafeCurrent = R(0)
  /\ iterationCount = 0
  /\ posted = <<>>
  /\ results = [a \in Algorithms |-> Null]

\* self.onmessage: the worker receives the message and enters its branch
WorkerStart ==
  /\ pc = "start"
  /\ posted' = <<>>
  /\ maxSafeCurrent' = R(0)
  /\ IF E.simulationAlgorithm = "iterative"
       THEN /\ pc' = "iterLoop"
            /\ i' = 0
            /\ UNCHANGED <<low, high, iterationCount>>
       ELSE /\ pc' = "binLoop"
            /\ low' = R(0)
            /\ high' = RMul(E.maxCurrent, Rat(3, 2))
            /\ iterationCount' = 0
            /\ UNCHANGED i
  /\ UNCHANGED <<values, results>>

IterStepNoReturn ==
  /\ pc = "iterLoop"
  /\ i <= E.precisionSteps
  /\ \E current \in {sweepCurrent(E, i)} : \E dataPoint \in {addDataPoint(E, current)} :
         IF dataPoint.checkResult.isSafe
           THEN /\ posted' = Append(posted, DataPointMsg(dataPoint))
                /\ maxSafeCurrent' = current
                /\ UNCHANGED results
           ELSE /\ posted' = posted \o <<DataPointMsg(dataPoint),
                                         CompleteMsg(failureResult(maxSafeCurrent, dataPoint))>>
                /\ results' = [results EXCEPT ![E.simulationAlgorithm] =
                                 Some(failureResult(maxSafeCurrent, dataPoint))]
                /\ UNCHANGED maxSafeCurrent
  /\ i' = i + 1
  /\ UNCHANGED <<values, pc, low, high, iterationCount>>

\* one iteration of the for loop of the linear sweep
IterStep ==
  /\ pc = "iterLoop"
  /\ i <= E.precisionSteps
  /\ \E current \in {sweepCurrent(E, i)} : \E dataPoint \in {addDataPoint(E, current)} :
         IF dataPoint.checkResult.isSafe
           THEN /\ posted' = Append(posted, DataPointMsg(dataPoint))
                /\ maxSafeCurrent' = current
                /\ i' = i + 1
                /\ UNCHANGED <<pc, results>>
           ELSE /\ posted' = posted \o <<DataPointMsg(dataPoint),
                                         CompleteMsg(failureResult(maxSafeCurrent, dataPoint))>>
                /\ results' = [results EXCEPT ![E.simulationAlgorithm] =
                                 Some(failureResult(maxSafeCurrent, dataPoint))]
                /\ pc' = "done"
                /\ UNCHANGED <<maxSafeCurrent, i>>
  /\ UNCHANGED <<values, low, high, iterationCount>>

\* the sweep ran through every step without a failure
IterFinish ==
  /\ pc = "iterLoop"
  /\ i > E.precisionSteps
  /\ posted' = Append(posted, CompleteMsg(successResult(E, maxSafeCurrent)))
  /\ results' = [results EXCEPT ![E.simulationAlgorithm] =
                   Some(successResult(E, maxSafeCurrent))]
  /\ pc' = "done"
  /\ UNCHANGED <<values, i, low, high, maxSafeCurrent, iterationCount>>

BinStepWrongHalf ==
  /\ pc = "binLoop"
  /\ binaryContinues(E, low, high, iterationCount)
  /\ \E mid \in {RDiv(RAdd(low, high), R(2))} :
         /\ mid.n > 0
         /\ \E dataPoint \in {addDataPoint(E, mid)} :
                /\ posted' = Append(posted, DataPointMsg(dataPoint))
                /\ IF dataPoint.checkResult.isSafe
                     THEN /\ maxSafeCurrent' = mid
                          /\ high' = mid
                          /\ UNCHANGED low
                     ELSE /\ low' = mid
                          /\ UNCHANGED <<maxSafeCurrent, high>>
  /\ iterationCount' = iterationCount + 1
  /\ UNCHANGED <<values, pc, i, results>>

\* one iteration of the while loop of the bisection
BinStep ==
  /\ pc = "binLoop"
  /\ binaryContinues(E, low, high, iterationCount)
  /\ \E mid \in {RDiv(RAdd(low, high), R(2))} :
         /\ mid.n > 0
         /\ \E dataPoint \in {addDataPoint(E, mid)} :
                /\ posted' = Append(posted, DataPointMsg(dataPoint))
                /\ IF dataPoint.checkResult.isSafe
                     THEN /\ maxSafeCurrent' = mid
                          /\ low' = mid
                          /\ UNCHANGED high
                     ELSE /\ high' = mid
                          /\ UNCHANGED <<maxSafeCurrent, low>>
  /\ iterationCount' = iterationCount + 1
  /\ UNCHANGED <<values, pc, i, results>>

\* the while loop ended (condition false, or break on mid <= 0)
BinFinish ==
  /\ pc = "binLoop"
  /\ \/ ~binaryContinues(E, low, high, iterationCount)
     \/ RDiv(RAdd(low, high), R(2)).n <= 0
  /\ posted' = Append(posted, CompleteMsg(successResult(E, maxSafeCurrent)))
  /\ results' = [results EXCEPT ![E.simulationAlgorithm] =
                   Some(successResult(E, maxSafeCurrent))]
  /\ pc' = "done"
  /\ UNCHANGED <<values, i, low, high, maxSafeCurrent, iterationCount>>

\* the same form values are run again with the other search strategy
RunBinary ==
  /\ pc = "done"
  /\ values.algorithm = "iterative"
  /\ values' = [values EXCEPT !.algorithm = "binary"]
  /\ pc' = "start"
  /\ UNCHANGED <<i, low, high, maxSafeCurrent, iterationCount, posted, results>>

(***************************************************************************)
(* The component's run pipeline (AmpereAnalyzer, part_012).                *)
(* A run is one call of onSubmit that got past the maxCurrent check: it    *)
(* owns a worker, the channel of the worker's messages, an                 *)
(* OptimizedDataQueue and the flag isSimulationRunning.  The refs and the  *)
(* React state of the component are shared by all runs.  A point is the    *)
(* record [run, seq, current]: the physical fields of a data point play    *)
(* no part in the pipeline, except current, by which a binary run sorts.   *)
(***************************************************************************)
MaxRuns == 2
MaxEmit == 3

RunIds == 1 .. MaxRuns

NoRun ==
  [ algorithm |-> "none", worker |-> "none", emitted |-> 0,
    inflight |-> <<>>, rqueue |-> <<>>, sinceDrain |-> 0,
    isSimulationRunning |-> FALSE, promise |-> "none" ]

\* the current of the seq-th point a worker posts: rising in a sweep, jumping
\* up and down in a bisection
pointCurrent(algorithm, seq) ==
  IF algorithm = "iterative" THEN seq
  ELSE IF seq % 2 = 1 THEN 2 * MaxEmit + 2 - seq ELSE seq

Point(r, algorithm, seq) == [run |-> r, seq |-> seq, current |-> pointCurrent(algorithm, seq)]

\* insertion of x into a sequence sorted by current, after the equal ones
RECURSIVE InsertByCurrent(_, _)
InsertByCurrent(s, x) ==
  IF s = <<>> THEN <<x>>
  ELSE IF x.current < Head(s).current THEN <<x>> \o s
  ELSE <<Head(s)>> \o InsertByCurrent(Tail(s), x)

\* currentData.sort((a, b) => a.current - b.current)
RECURSIVE SortByCurrent(_)
SortByCurrent(s) ==
  IF s = <<>> THEN <<>>
  ELSE InsertByCurrent(SortByCurrent(SubSeq(s, 1, Len(s) - 1)), s[Len(s)])

\* currentData.forEach(point => dataBuffer.current.add(point))
RECURSIVE addAll(_, _)
addAll(b, points) ==
  IF points = <<>> THEN b ELSE addAll(add(b, Head(points)), Tail(points))

renderPointNoSort(b, algorithm, pointToRender) == add(b, pointToRender)

\* the body of animationLoop up to the render trigger: the buffer afterwards
renderPoint(b, algorithm, pointToRender) ==
  LET b1 == add(b, pointToRender)
  IN  IF algorithm = "binary"
        THEN LET currentData == [k \in 1 .. b1.size |-> getDisplayData(b1)[k][1]]
             IN  addAll(bufferClear(b1), SortByCurrent(currentData))
        ELSE b1

AInit ==
  /\ mounted = TRUE
  /\ nRuns = 0
  /\ runs = [r \in RunIds |-> NoRun]
  /\ animationIntervalId = 0
  /\ smoothAnimationRef = FALSE
  /\ simulationResult = 0
  /\ renderTrigger = 0
  /\ effectPending = FALSE
  /\ stopTimers = {}
  /\ cancelSnap = Null
  /\ overlapped = {}
  /\ sequential = {}

AppIdle ==
  /\ mounted = FALSE
  /\ nRuns = 0
  /\ runs = <<>>
  /\ animationIntervalId = 0
  /\ smoothAnimationRef = FALSE
  /\ simulationResult = 0
  /\ renderTrigger = 0
  /\ effectPending = FALSE
  /\ stopTimers = {}
  /\ cancelSnap = Null
  /\ overlapped = {}
  /\ sequential = {}

\* onSubmit with values whose maxCurrent is missing or not positive: the
\* cleanup, the reset of the displayed state, the toast and return
SubmitInvalid ==
  /\ mounted
  /\ animationIntervalId' = 0
  /\ smoothAnimationRef' = FALSE
  /\ simulationResult' = 0
  /\ renderTrigger' = 0
  /\ effectPending' = FALSE
  /\ LET b == bufferClear(Buf)
     IN  /\ buffer' = b.buffer
         /\ head' = b.head
         /\ size' = b.size
  /\ UNCHANGED <<mounted, nRuns, runs, stopTimers, cancelSnap, overlapped, sequential>>

\* onSubmit with valid values, up to the await of runSimulation: the cleanup,
\* the reset, a new queue, the 8 ms interval, the smooth animation, the worker
Submit ==
  /\ mounted
  /\ nRuns < MaxRuns
  /\ \E algorithm \in Algorithms :
       runs' = [runs EXCEPT ![nRuns + 1] =
                  [ algorithm |-> algorithm, worker |-> "running", emitted |-> 0,
                    inflight |-> <<>>, rqueue |-> <<>>,
                    sinceDrain |-> DequeueInterval, isSimulationRunning |-> TRUE,
                    promise |-> "pending" ]]
  /\ nRuns' = nRuns + 1
  /\ animationIntervalId' = nRuns + 1
  /\ smoothAnimationRef' = TRUE
  /\ simulationResult' = 0
  /\ renderTrigger' = 0
  /\ effectPending' = FALSE
  /\ LET b == bufferClear(Buf)
     IN  /\ buffer' = b.buffer
         /\ head' = b.head
         /\ size' = b.size
  /\ overlapped' = overlapped \cup {r \in 1 .. nRuns : runs[r].worker = "running"}
  /\ sequential' = IF \A r \in 1 .. nRuns : runs[r].promise = "resolved"
                     THEN sequential \cup {nRuns + 1} ELSE sequential
  /\ UNCHANGED <<mounted, stopTimers, cancelSnap>>

\* the worker of run r posts the data point of its next probed current
WorkerPostPoint(r) ==
  /\ runs[r].worker = "running"
  /\ runs[r].emitted < MaxEmit
  /\ runs' = [runs EXCEPT
       ![r].emitted = @ + 1,
       ![r].inflight = Append(@, [type |-> "dataPoint",
                                  data |-> Point(r, runs[r].algorithm, runs[r].emitted + 1)])]
  /\ UNCHANGED <<mounted, nRuns, animationIntervalId, smoothAnimationRef, simulationResult,
                 renderTrigger, effectPending, stopTimers, cancelSnap, overlapped, sequential,
                 buffer, head, size>>

\* the worker of run r posts 'complete' and its handler returns; how many
\* points a search posts before that depends on the parameters (none, for a
\* bisection whose iteration cap is not positive)
WorkerPostComplete(r) ==
  /\ runs[r].worker = "running"
  /\ runs' = [runs EXCEPT
       ![r].worker = "finished",
       ![r].inflight = Append(@, [type |-> "complete", result |-> r])]
  /\ UNCHANGED <<mounted, nRuns, animationIntervalId, smoothAnimationRef, simulationResult,
                 renderTrigger, effectPending, stopTimers, cancelSnap, overlapped, sequential,
                 buffer, head, size>>

\* worker.onmessage of run r for a 'dataPoint': updateCallback enqueues it
DeliverPoint(r) ==
  /\ runs[r].inflight # <<>>
  /\ Head(runs[r].inflight).type = "dataPoint"
  /\ runs' = [runs EXCEPT
       ![r].inflight = Tail(@),
       ![r].rqueue = enqueue(@, Head(runs[r].inflight).data)]
  /\ UNCHANGED <<mounted, nRuns, animationIntervalId, smoothAnimationRef, simulationResult,
                 renderTrigger, effectPending, stopTimers, cancelSnap, overlapped, sequential,
                 buffer, head, size>>

\* worker.onmessage of run r for 'complete': terminate, resolve, and the rest of
\* onSubmit after the await (up to the 500 ms timeout being set)
DeliverComplete(r) ==
  /\ runs[r].inflight # <<>>
  /\ Head(runs[r].inflight).type = "complete"
  /\ runs' = [runs EXCEPT
       ![r].inflight = Tail(@),
       ![r].worker = "terminated",
       ![r].promise = "resolved",
       ![r].isSimulationRunning = FALSE]
  /\ simulationResult' = IF mounted THEN Head(runs[r].inflight).result ELSE simulationResult
  /\ stopTimers' = stopTimers \cup {r}
  /\ UNCHANGED <<mounted, nRuns, animationIntervalId, smoothAnimationRef,
                 renderTrigger, effectPending, cancelSnap, overlapped, sequential,
                 buffer, head, size>>

\* the worker of run r fails with an uncaught error: its handler ends there
\* and an error event goes to the main thread
WorkerError(r) ==
  /\ runs[r].worker = "running"
  /\ runs' = [runs EXCEPT
       ![r].worker = "failed",
       ![r].inflight = Append(@, [type |-> "error"])]
  /\ UNCHANGED <<mounted, nRuns, animationIntervalId, smoothAnimationRef, simulationResult,
                 renderTrigger, effectPending, stopTimers, cancelSnap, overlapped, sequential,
                 buffer, head, size>>

\* worker.onerror of run r: terminate and reject; the await in onSubmit throws,
\* onSubmit has no catch, and nothing after the await runs
DeliverError(r) ==
  /\ runs[r].inflight # <<>>
  /\ Head(runs[r].inflight).type = "error"
  /\ runs' = [runs EXCEPT
       ![r].inflight = Tail(@),
       ![r].worker = "terminated",
       ![r].promise = "rejected"]
  /\ UNCHANGED <<mounted, nRuns, animationIntervalId, smoothAnimationRef, simulationResult,
                 renderTrigger, effectPending, stopTimers, cancelSnap, overlapped, sequential,
                 buffer, head, size>>

\* 8 ms or more have passed since the last effective drain of the polled queue
Elapse(r) ==
  /\ animationIntervalId = r
  /\ runs[r].sinceDrain < DequeueInterval
  /\ runs' = [runs EXCEPT ![r].sinceDrain = DequeueInterval]
  /\ UNCHANGED <<mounted, nRuns, animationIntervalId, smoothAnimationRef, simulationResult,
                 renderTrigger, effectPending, stopTimers, cancelSnap, overlapped, sequential,
                 buffer, head, size>>

AnimationLoopClearsEarly(r) ==
  /\ animationIntervalId = r
  /\ \E d \in {dequeue(runs[r].rqueue, 0, runs[r].algorithm, runs[r].sinceDrain)} :
     \E b \in {IF d.ret # Null THEN renderPoint(Buf, runs[r].algorithm, d.ret[1]) ELSE Buf} :
         /\ runs' = [runs EXCEPT
              ![r].rqueue = d.queue,
              ![r].sinceDrain = IF d.ret # Null THEN 0 ELSE @]
         /\ buffer' = b.buffer
         /\ head' = b.head
         /\ size' = b.size
         /\ renderTrigger' = IF d.ret # Null THEN renderTrigger + 1 ELSE renderTrigger
         /\ effectPending' = IF d.ret # Null THEN TRUE ELSE effectPending
         /\ animationIntervalId' =
              IF ~runs[r].isSimulationRunning THEN 0 ELSE animationIntervalId
  /\ UNCHANGED <<mounted, nRuns, smoothAnimationRef, simulationResult, stopTimers, cancelSnap,
                 overlapped, sequential>>

\* animationLoop of run r, called by its interval
AnimationLoop(r) ==
  /\ animationIntervalId = r
  /\ \E d \in {dequeue(runs[r].rqueue, 0, runs[r].algorithm, runs[r].sinceDrain)} :
     \E b \in {IF d.ret # Null THEN renderPoint(Buf, runs[r].algorithm, d.ret[1]) ELSE Buf} :
         /\ runs' = [runs EXCEPT
              ![r].rqueue = d.queue,
              ![r].sinceDrain = IF d.ret # Null THEN 0 ELSE @]
         /\ buffer' = b.buffer
         /\ head' = b.head
         /\ size' = b.size
         /\ renderTrigger' = IF d.ret # Null THEN renderTrigger + 1 ELSE renderTrigger
         /\ effectPending' = IF d.ret # Null THEN TRUE ELSE effectPending
         /\ animationIntervalId' =
              IF ~runs[r].isSimulationRunning /\ Len(d.queue) = 0 THEN 0 ELSE animationIntervalId
  /\ UNCHANGED <<mounted, nRuns, smoothAnimationRef, simulationResult, stopTimers, cancelSnap,
                 overlapped, sequential>>

\* the effect on renderTrigger: start the smooth animation if none is running
RenderEffect ==
  /\ mounted
  /\ effectPending
  /\ effectPending' = FALSE
  /\ smoothAnimationRef' = IF renderTrigger > 0 /\ ~smoothAnimationRef THEN TRUE
                            ELSE smoothAnimationRef
  /\ UNCHANGED <<mounted, nRuns, runs, animationIntervalId, simulationResult, renderTrigger,
                 stopTimers, cancelSnap, overlapped, sequential,
                 buffer, head, size>>

\* the 500 ms timeout set after run r completed
StopTimer(r) ==
  /\ r \in stopTimers
  /\ stopTimers' = stopTimers \ {r}
  /\ smoothAnimationRef' = FALSE
  /\ UNCHANGED <<mounted, nRuns, runs, animationIntervalId, simulationResult, renderTrigger,
                 effectPending, cancelSnap, overlapped, sequential,
                 buffer, head, size>>

\* the cleanup of the component's effect (unmount)
Unmount ==
  /\ mounted
  /\ mounted' = FALSE
  /\ animationIntervalId' = 0
  /\ smoothAnimationRef' = FALSE
  /\ LET b == bufferClear(Buf)
     IN  /\ buffer' = b.buffer
         /\ head' = b.head
         /\ size' = b.size
  /\ cancelSnap' = Some([ emitted |-> [r \in RunIds |-> runs[r].emitted],
                          queued  |-> [r \in RunIds |-> Len(runs[r].rqueue)] ])
  /\ UNCHANGED <<nRuns, runs, simulationResult, renderTrigger, effectPending, stopTimers,
                 overlapped, sequential>>

(***************************************************************************)
(* The smooth render loop (startSmoothAnimation, part_012:129-186) and     *)
(* EasingInterpolator.  The loop runs once per animation frame on the      *)
(* ring buffer's current and previous points and writes smoothDataStream.  *)
(***************************************************************************)
MaxFrameTime == 360

INTERPOLATION_DURATION == 120

StreamLength == 200

\* the time between two animation frames, in milliseconds
FrameSteps == {60, 120}

\* the data points the poll loop may add to the ring buffer
LivePoint(c) ==
  [ current |-> R(c), temperature |-> R(25 + 10 * c), powerLoss |-> R(2 * c),
    conductionLoss |-> R(c), switchingLoss |-> R(c), progress |-> R(20 * c),
    limitValue |-> R(100) ]
LivePoints == {LivePoint(c) : c \in 1 .. 3}

\* { ...point, isInterpolated, timestamp }
Stamped(point, isInterpolated, timestamp) ==
  [ current |-> point.current, temperature |-> point.temperature,
    powerLoss |-> point.powerLoss, conductionLoss |-> point.conductionLoss,
    switchingLoss |-> point.switchingLoss, progress |-> point.progress,
    limitValue |-> point.limitValue,
    isInterpolated |-> isInterpolated, timestamp |-> timestamp ]

easeInOutQuad(t) ==
  IF RLess(t, Rat(1, 2)) THEN RMul(R(2), RMul(t, t))
  ELSE RAdd(R(-1), RMul(RSub(R(4), RMul(R(2), t)), t))

\* interpolate(from, to, progress); from is Null or <<point>>, and timestamp is
\* what performance.now() returns in the call
interpolate(from, to, progress, timestamp) ==
  IF from = Null THEN Stamped(to, FALSE, timestamp)
  ELSE CHOOSE r \in
         { [ current |-> RAdd(f.current, RMul(RSub(to.current, f.current), easedProgress)),
             temperature |->
               RAdd(f.temperature, RMul(RSub(to.temperature, f.temperature), easedProgress)),
             powerLoss |->
               RAdd(f.powerLoss, RMul(RSub(to.powerLoss, f.powerLoss), easedProgress)),
             conductionLoss |->
               RAdd(f.conductionLoss,
                    RMul(RSub(to.conductionLoss, f.conductionLoss), easedProgress)),
             switchingLoss |->
               RAdd(f.switchingLoss,
                    RMul(RSub(to.switchingLoss, f.switchingLoss), easedProgress)),
             progress |-> RAdd(f.progress, RMul(RSub(to.progress, f.progress), easedProgress)),
             limitValue |-> to.limitValue,
             isInterpolated |-> TRUE, timestamp |-> timestamp ] :
           f \in {from[1]},
           easedProgress \in {easeInOutQuad(RMax(R(0), RMin(R(1), progress)))} } : TRUE

RInit ==
  /\ smoothDataStream = <<>>
  /\ keyframeStartTime = 0
  /\ frameTime = 0

\* animationLoop adds a dequeued point to the ring buffer
AddKeyframe ==
  /\ \E point \in LivePoints : \E b \in {add(Buf, point)} :
         /\ buffer' = b.buffer
         /\ head' = b.head
         /\ size' = b.size
  /\ UNCHANGED <<added, nextAdd, smoothDataStream, keyframeStartTime, frameTime>>

\* smoothAnimationLoop(currentTime): one animation frame
SmoothFrame ==
  /\ \E step \in FrameSteps : \E currentTime \in {frameTime + step} :
       /\ currentTime <= MaxFrameTime
       /\ frameTime' = currentTime
       /\ \E currentPoint \in {getCurrent(Buf)}, previousPoint \in {getPrevious(Buf)} :
            IF currentPoint = Null \/ previousPoint = Null
              THEN UNCHANGED <<smoothDataStream, keyframeStartTime>>
              ELSE \E interpolationProgress \in
                        {RMin(Rat(currentTime - keyframeStartTime, INTERPOLATION_DURATION),
                              R(1))} :
                   \E interpolatedPoint \in
                        {interpolate(previousPoint, currentPoint[1], interpolationProgress,
                                     currentTime)} :
                   \E newStream \in
                        {SliceLast(
                           IF smoothDataStream # <<>>
                              /\ smoothDataStream[Len(smoothDataStream)].isInterpolated
                             THEN [smoothDataStream EXCEPT ![Len(smoothDataStream)] =
                                     interpolatedPoint]
                             ELSE Append(smoothDataStream, interpolatedPoint),
                           StreamLength)} :
                     IF RLe(R(1), interpolationProgress)
                       THEN /\ keyframeStartTime' = currentTime
                            /\ smoothDataStream' =
                                 Append(SliceLast(newStream, StreamLength - 1),
                                        Stamped(currentPoint[1], FALSE, currentTime))
                       ELSE /\ keyframeStartTime' = keyframeStartTime
                            /\ smoothDataStream' = newStream
  /\ UNCHANGED <<buffer, head, size, added, nextAdd>>

(***************************************************************************)
(* Specifications                                                          *)
(***************************************************************************)
SimIdle ==
  /\ values = <<>>
  /\ pc = "idle"
  /\ i = 0
  /\ low = 0
  /\ high = 0
  /\ maxSafeCurrent = 0
  /\ iterationCount = 0
  /\ posted = <<>>
  /\ results = <<>>

InitQueue == QInit /\ BInit /\ SimIdle /\ AppIdle /\ RInit
NextQueue ==
  \/ Enqueue /\ UNCHANGED <<bvars, svars, avars, rvars>>
  \/ Dequeue /\ UNCHANGED <<bvars, svars, avars, rvars>>
  \/ QueueClear /\ UNCHANGED <<bvars, svars, avars, rvars>>
  \/ Tick /\ UNCHANGED <<bvars, svars, avars, rvars>>
SpecQueue == InitQueue /\ [][NextQueue]_vars

InitBuffer == QInit /\ BInit /\ SimIdle /\ AppIdle /\ RInit
NextBuffer ==
  \/ Add /\ UNCHANGED <<qvars, svars, avars, rvars>>
  \/ BufferClear /\ UNCHANGED <<qvars, svars, avars, rvars>>
SpecBuffer == InitBuffer /\ [][NextBuffer]_vars

InitSim == QInit /\ BInit /\ SInit /\ AppIdle /\ RInit
NextSim ==
  \/ WorkerStart /\ UNCHANGED <<qvars, bvars, avars, rvars>>
  \/ IterStep /\ UNCHANGED <<qvars, bvars, avars, rvars>>
  \/ IterFinish /\ UNCHANGED <<qvars, bvars, avars, rvars>>
  \/ BinStep /\ UNCHANGED <<qvars, bvars, avars, rvars>>
  \/ BinFinish /\ UNCHANGED <<qvars, bvars, avars, rvars>>
  \/ RunBinary /\ UNCHANGED <<qvars, bvars, avars, rvars>>
SpecSim == InitSim /\ [][NextSim]_vars

\* the worker is one thread that runs its handler to the end: a step that can
\* be taken is taken
SpecSimFair == SpecSim /\ WF_vars(NextSim)

qsvars == <<queue, lastProcessTime, now, nextPoint, qlog, lastDrainAt, clearedSince, delivery,
            added, nextAdd, values, pc, i, low, high, maxSafeCurrent, iterationCount,
            posted, results,
            smoothDataStream, keyframeStartTime, frameTime>>

InitApp == QInit /\ BInit /\ SimIdle /\ AInit /\ RInit
NextApp ==
  \/ Submit /\ UNCHANGED qsvars
  \/ SubmitInvalid /\ UNCHANGED qsvars
  \/ \E r \in RunIds : WorkerPostPoint(r) /\ UNCHANGED qsvars
  \/ \E r \in RunIds : WorkerPostComplete(r) /\ UNCHANGED qsvars
  \/ \E r \in RunIds : DeliverPoint(r) /\ UNCHANGED qsvars
  \/ \E r \in RunIds : DeliverComplete(r) /\ UNCHANGED qsvars
  \/ \E r \in RunIds : WorkerError(r) /\ UNCHANGED qsvars
  \/ \E r \in RunIds : DeliverError(r) /\ UNCHANGED qsvars
  \/ \E r \in RunIds : Elapse(r) /\ UNCHANGED qsvars
  \/ \E r \in RunIds : AnimationLoop(r) /\ UNCHANGED qsvars
  \/ RenderEffect /\ UNCHANGED qsvars
  \/ \E r \in RunIds : StopTimer(r) /\ UNCHANGED qsvars
  \/ Unmount /\ UNCHANGED qsvars
SpecApp == InitApp /\ [][NextApp]_vars

\* one run that no later submit replaces, with the 8 ms interval firing and
\* time passing for as long as the interval is set
NextRun ==
  \/ (nRuns = 0 /\ Submit) /\ UNCHANGED qsvars
  \/ \E r \in RunIds : WorkerPostPoint(r) /\ UNCHANGED qsvars
  \/ \E r \in RunIds : WorkerPostComplete(r) /\ UNCHANGED qsvars
  \/ \E r \in RunIds : DeliverPoint(r) /\ UNCHANGED qsvars
  \/ \E r \in RunIds : DeliverComplete(r) /\ UNCHANGED qsvars
  \/ \E r \in RunIds : WorkerError(r) /\ UNCHANGED qsvars
  \/ \E r \in RunIds : DeliverError(r) /\ UNCHANGED qsvars
  \/ \E r \in RunIds : Elapse(r) /\ UNCHANGED qsvars
  \/ \E r \in RunIds : AnimationLoop(r) /\ UNCHANGED qsvars
  \/ RenderEffect /\ UNCHANGED qsvars
  \/ \E r \in RunIds : StopTimer(r) /\ UNCHANGED qsvars
  \/ Unmount /\ UNCHANGED qsvars
SpecRunFair ==
  /\ InitApp
  /\ [][NextRun]_vars
  /\ \A r \in RunIds : WF_vars(Elapse(r) /\ UNCHANGED qsvars)
  /\ \A r \in RunIds : WF_vars(AnimationLoop(r) /\ UNCHANGED qsvars)

\* the render loop on a ring buffer that the poll loop fills
InitRender == QInit /\ BInit /\ SimIdle /\ AppIdle /\ RInit
NextRender ==
  \/ AddKeyframe /\ UNCHANGED <<qvars, svars, avars>>
  \/ SmoothFrame /\ UNCHANGED <<qvars, svars, avars>>
SpecRender == InitRender /\ [][NextRender]_vars

(***************************************************************************)
(* Properties                                                              *)
(***************************************************************************)

\* C1 (SpecQueue): after any interleaving of enqueue, dequeue and clear calls
\* the length of the queue is at most maxSize, however many points are
\* enqueued between two drains.
C1_QueueLengthBounded == Len(queue) <= maxSize

\* an enqueue onto a full queue, after a drain had taken effect
C1_Witness ==
  /\ qlog.op = "enqueue"
  /\ Len(qlog.preQueue) = maxSize
  /\ Len(queue) = maxSize
  /\ lastDrainAt >= 0

\* C2 (SpecBuffer): after any sequence of add and clear calls, length is at
\* most capacity and getDisplayData returns at most capacity points.
C2_BufferBounded ==
  /\ size <= capacity
  /\ Len(getDisplayData(Buf)) <= capacity

\* more points than capacity were added since a clear, and the buffer is full
C2_Witness ==
  /\ Len(added) > capacity
  /\ nextAdd - 1 > Len(added)
  /\ size = capacity
  /\ Len(getDisplayData(Buf)) = capacity

\* the points of run r that getDisplayData returns
DisplayedOf(r) == {k \in 1 .. size : getDisplayData(Buf)[k][1].run = r}

\* C3 (SpecApp): when a run is started while an earlier run's worker has not
\* posted 'complete', the earlier worker is terminated before the new run
\* accepts a message, no sample of the earlier run is in the ring buffer
\* afterwards, and the earlier run's result never becomes the displayed one.
C3_EarlierRunCancelled ==
  \A r \in overlapped :
    /\ runs[r].worker = "terminated"
    /\ DisplayedOf(r) = {}
    /\ simulationResult # r

\* C4 (SpecApp): once the run is cancelled (the unmount cleanup), the worker
\* posts at most one more dataPoint, the delivery queue and the ring buffer do
\* not grow, and the poll timer and the render loop are released.
C4_CancelStopsRun ==
  cancelSnap # Null =>
    /\ \A r \in RunIds :
         /\ runs[r].emitted <= cancelSnap[1].emitted[r] + 1
         /\ Len(runs[r].rqueue) <= cancelSnap[1].queued[r]
    /\ size = 0
    /\ animationIntervalId = 0
    /\ ~smoothAnimationRef

\* C5 (SpecSim): for every accepted parameter set, every mode and both
\* strategies, maxSafeCurrent of the completed result is at most maxCurrent.
C5_SafeCurrentWithinRating ==
  \A a \in Algorithms :
    results[a] # Null => RLe(results[a][1].maxSafeCurrent, values.form.maxCurrent)

RAbs(a) == IF a.n < 0 THEN RNeg(a) ELSE a

\* C6 (SpecSim): on identical parameters the maxSafeCurrent of the linear
\* sweep and that of the bisection differ by at most the larger of one sweep
\* step (1.2 * maxCurrent / precisionSteps) and the tolerance 0.01.
C6_StrategiesAgree ==
  (results["iterative"] # Null /\ results["binary"] # Null) =>
    RLe(RAbs(RSub(results["iterative"][1].maxSafeCurrent,
                  results["binary"][1].maxSafeCurrent)),
        RMax(sweepCurrent(workerMessage(values.form, "iterative"), 1), Tolerance))

\* the data points among the messages posted in the current run
DataPoints == {k \in 1 .. Len(posted) : posted[k].type = "dataPoint"}

\* C7 (SpecSim): every dataPoint emitted by either strategy has
\* 0 <= progress <= 100, in all three modes.
C7_ProgressInRange ==
  \A k \in DataPoints :
    /\ RLe(R(0), posted[k].data.progress)
    /\ RLe(posted[k].data.progress, R(100))

\* C8 (SpecSim): in an iterative run the dataPoint messages are posted with
\* non-decreasing current.
C8_SweepNonDecreasing ==
  values.algorithm = "iterative" =>
    \A a \in DataPoints, b \in DataPoints :
      a < b => RLe(posted[a].data.current, posted[b].data.current)

\* an iterative run that completed after posting three data points or more,
\* the last of them at a positive current
C8_Witness ==
  /\ values.algorithm = "iterative"
  /\ pc = "done"
  /\ Cardinality(DataPoints) >= 3
  /\ \E k \in DataPoints : posted[k].data.current.n > 0

\* C9 (SpecQueue): enqueue never rejects; after an enqueue the queue holds
\* the most recent min(n, maxSize) of the n points that were waiting
\* (the ones queued before plus the new one), in arrival order, newest last.
C9_EnqueueKeepsNewest ==
  qlog.op = "enqueue" =>
    LET n == Len(qlog.preQueue) + 1
        m == Min(n, maxSize)
        waiting == [k \in 1 .. n |-> IF k = n THEN qlog.point ELSE qlog.preQueue[k]]
    IN  /\ Len(queue) = m
        /\ queue[m] = qlog.point
        /\ \A k \in 1 .. m : queue[k] = waiting[n - m + k]
        /\ \A k \in 1 .. m - 1 : queue[k] < queue[k + 1]

\* an enqueue that evicted the oldest entry of a full queue
C9_Witness ==
  /\ qlog.op = "enqueue"
  /\ Len(qlog.preQueue) = maxSize
  /\ queue[1] = qlog.preQueue[2]
  /\ queue[maxSize] = qlog.point

\* a dequeue call made less than 8 ms after the last dequeue that returned a point
EarlyDequeue ==
  /\ qlog.op = "dequeue"
  /\ qlog.preDrainAt >= 0
  /\ qlog.time - qlog.preDrainAt < DequeueInterval

\* the last call returned null and left the queue and lastProcessTime as they were
LastCallNoOp ==
  /\ qlog.ret = Null
  /\ queue = qlog.preQueue
  /\ lastProcessTime = qlog.preLast

\* C10 as stated (SpecQueue): a dequeue call made less than 8 ms after the
\* last dequeue that returned a point is a no-op.
C10_EarlyDequeueNoOp == EarlyDequeue => LastCallNoOp

\* C10 amended (SpecQueue): a dequeue call made less than 8 ms after the last
\* dequeue that returned a point, with no clear() call in between, is a no-op.
C10_EarlyDequeueNoOpUnlessCleared ==
  (EarlyDequeue /\ ~qlog.preCleared) => LastCallNoOp

\* such a call on a queue that holds points
C10_Witness ==
  /\ EarlyDequeue
  /\ ~qlog.preCleared
  /\ qlog.preQueue # <<>>
  /\ LastCallNoOp

\* the last call was a dequeue with the given algorithm that returned a point
EffectiveDequeue(algorithm) ==
  /\ qlog.op = "dequeue"
  /\ qlog.algorithm = algorithm
  /\ qlog.ret # Null

\* C11 (SpecQueue): with 'binary' an effective drain removes and returns
\* exactly the oldest point; and as long as every drain is 'binary', the points
\* delivered so far followed by the points still queued are the enqueued
\* points without the evicted ones, in arrival order and without duplicates.
C11_BinaryDrainsOldest ==
  /\ EffectiveDequeue("binary") =>
       /\ qlog.ret = Some(Head(qlog.preQueue))
       /\ queue = Tail(qlog.preQueue)
  /\ delivery.binaryOnly =>
       LET out == delivery.delivered \o queue
       IN  /\ \A k \in 1 .. Len(out) - 1 : out[k] < out[k + 1]
           /\ Range(out) = (1 .. nextPoint - 1) \ delivery.evicted

\* a second 'binary' drain in a row, after the queue had overflowed
C11_Witness ==
  /\ EffectiveDequeue("binary")
  /\ delivery.binaryOnly
  /\ Len(delivery.delivered) >= 2
  /\ delivery.evicted # {}
  /\ Len(qlog.preQueue) >= 2

\* C12 (SpecQueue): with 'iterative' an effective drain on a queue of length
\* L > 0 removes the k = max(1, floor(L / 10)) oldest points and returns the
\* k-th of them; L - k points remain, in their order.
C12_IterativeDrainsBatch ==
  EffectiveDequeue("iterative") =>
    LET L == Len(qlog.preQueue)
        k == IF L \div 10 >= 1 THEN L \div 10 ELSE 1
    IN  /\ L > 0
        /\ qlog.ret = Some(qlog.preQueue[k])
        /\ Len(queue) = L - k
        /\ \A j \in 1 .. L - k : queue[j] = qlog.preQueue[k + j]

\* an 'iterative' drain of a batch of two points or more
C12_Witness ==
  /\ EffectiveDequeue("iterative")
  /\ Len(qlog.preQueue) \div 10 >= 2
  /\ Len(queue) = Len(qlog.preQueue) - Len(qlog.preQueue) \div 10

\* C13 (SpecBuffer): after n add calls since construction or the last clear,
\* getDisplayData returns exactly the last min(n, capacity) added points,
\* oldest first (so that, once full, an add drops precisely the oldest one).
C13_DisplayIsLastAdded ==
  LET n == Len(added)
      m == Min(n, capacity)
      shown == getDisplayData(Buf)
  IN  /\ Len(shown) = m
      /\ \A k \in 1 .. m : shown[k] = Some(added[n - m + k])

\* the buffer was cleared, has since taken more points than it holds, and the
\* write index is in the middle of the array
C13_Witness ==
  /\ nextAdd - 1 > Len(added)
  /\ Len(added) > capacity
  /\ head # 0
  /\ getDisplayData(Buf)[capacity] = Some(added[Len(added)])

\* C14 (SpecBuffer): getCurrent returns the most recently added point (null
\* iff none was added since the last clear) and getPrevious the point added
\* immediately before it (null iff fewer than two were), also after the write
\* index has wrapped around.
C14_CurrentAndPrevious ==
  LET n == Len(added)
  IN  /\ getCurrent(Buf) = IF n = 0 THEN Null ELSE Some(added[n])
      /\ getPrevious(Buf) = IF n < 2 THEN Null ELSE Some(added[n - 1])

\* the write index has wrapped around to slot 1: the current point is in slot 0
\* and the previous one in the last slot
C14_Witness ==
  /\ Len(added) > capacity
  /\ head = 1
  /\ getCurrent(Buf) = buffer[0]
  /\ getPrevious(Buf) = buffer[capacity - 1]

\* what the accessors of the buffer return, as a set of slots' contents
Returned ==
  {getCurrent(Buf), getPrevious(Buf)}
    \cup Range(getDisplayData(Buf))
    \cup UNION {Range(getLastPoints(Buf, c)) : c \in 0 .. capacity + 1}

\* C15 (SpecBuffer): after clear the buffer answers like a new one (length 0,
\* getDisplayData and getLastPoints empty, getCurrent and getPrevious null),
\* and whatever is added afterwards, no accessor returns a point that was
\* added before the clear.
C15_ClearForgets ==
  /\ added = <<>> =>
       /\ size = 0
       /\ getDisplayData(Buf) = <<>>
       /\ getCurrent(Buf) = Null
       /\ getPrevious(Buf) = Null
       /\ \A c \in 0 .. capacity + 1 : getLastPoints(Buf, c) = <<>>
  /\ \A x \in Returned : x = Null \/ x[1] \in Range(added)

\* a slot still holds a point added before the last clear, and points were
\* added since
C15_Witness ==
  /\ added # <<>>
  /\ \E k \in Slots : buffer[k] # Null /\ buffer[k][1] \notin Range(added)
  /\ Some(added[1]) \in Returned

\* the limits a data point exceeds, read off the data point itself
TemperatureExceeded(dp) == RLess(E.maxTemperature, dp.temperature)
PowerRatingExceeded(dp) ==
  E.powerDissipation.n # 0 /\ RLess(E.powerDissipation, dp.powerLoss)
CoolingBudgetExceeded(dp) == RLess(E.effectiveCoolingBudget, dp.powerLoss)
RatedCurrentExceeded(dp) == RLess(E.maxCurrent, dp.current)

FirstExceeded(dp) ==
  IF TemperatureExceeded(dp) THEN "Thermal"
  ELSE IF PowerRatingExceeded(dp) THEN "Power Dissipation"
  ELSE IF CoolingBudgetExceeded(dp) THEN "Cooling Budget"
  ELSE IF RatedCurrentExceeded(dp) THEN "Current"
  ELSE "null"

\* C16 (SpecSim): in first-to-fail mode a current fails iff it violates at
\* least one of temperature, device power rating (if present), cooling budget
\* and rated current, and the failure reason is the first violated check in
\* that order, also when several are violated at once.
C16_FirstToFailPriority ==
  values.form.simulationMode = "ftf" =>
    \A k \in DataPoints :
      /\ posted[k].data.checkResult.isSafe = (FirstExceeded(posted[k].data) = "null")
      /\ posted[k].data.checkResult.failureReason = FirstExceeded(posted[k].data)

\* a first-to-fail data point over both the power rating and the rated
\* current, but not the temperature limit, reported as 'Power Dissipation'
C16_Witness ==
  /\ values.form.simulationMode = "ftf"
  /\ \E k \in DataPoints :
       /\ ~TemperatureExceeded(posted[k].data)
       /\ PowerRatingExceeded(posted[k].data)
       /\ RatedCurrentExceeded(posted[k].data)
       /\ posted[k].data.checkResult.failureReason = "Power Dissipation"
       /\ ~posted[k].data.checkResult.isSafe

\* the run that has just completed: its message and its result
Done == pc = "done" /\ results[values.algorithm] # Null
DoneResult == results[values.algorithm][1]

\* C17 (SpecSim): when the model already fails at current 0, the run
\* completes with status 'failure' and maxSafeCurrent 0, in both strategies.
C17_FailureAtZero ==
  (Done /\ ~checkCurrent(E, R(0)).isSafe) =>
    /\ DoneResult.status = "failure"
    /\ DoneResult.maxSafeCurrent = R(0)

\* the failing data points of the completed run, and the lowest of them
Failing == {k \in DataPoints : ~posted[k].data.checkResult.isSafe}
LowestFailing ==
  {k \in Failing : \A j \in Failing : RLe(posted[k].data.current, posted[j].data.current)}

\* C18 (SpecSim): in first-to-fail mode, when the device power rating is the
\* first limit reached as current rises (the lowest failing current exceeds
\* the power rating and no other limit), the completed result reports
\* failureReason 'Power Dissipation'.
C18_PowerRatingReported ==
  (Done /\ values.form.simulationMode = "ftf"
        /\ \E k \in LowestFailing :
             /\ PowerRatingExceeded(posted[k].data)
             /\ ~TemperatureExceeded(posted[k].data)
             /\ ~CoolingBudgetExceeded(posted[k].data)
             /\ ~RatedCurrentExceeded(posted[k].data)) =>
    DoneResult.failureReason = "Power Dissipation"

\* C19 (SpecSim): the completed result has status 'success' exactly when the
\* model, evaluated again at the reported maxSafeCurrent, exceeds no limit of
\* the active mode, and status 'failure' with a failure reason otherwise; a
\* 'success' never carries a failure reason.
C19_StatusMatchesFinalCheck ==
  Done =>
    /\ DoneResult.status \in {"success", "failure"}
    /\ (DoneResult.status = "success") = checkCurrent(E, DoneResult.maxSafeCurrent).isSafe
    /\ DoneResult.status = "failure" => DoneResult.failureReason # "null"
    /\ DoneResult.status = "success" => DoneResult.failureReason = "null"

\* the step in which the main thread handles the error of run r's worker
ErrorHandled(r) == runs[r].promise = "pending" /\ runs'[r].promise = "rejected"

\* C20 (SpecApp): when the worker of a run fails with an uncaught error, the
\* consumer is notified of completion with an error status (the run is marked
\* as no longer running and, while the component is mounted, a result of that
\* run is set), the samples already in the ring buffer are not removed, and
\* the run's 8 ms poll timer and render loop are stopped or set to stop.
C20_ProducerFailureSurfaced ==
  [][\A r \in RunIds : ErrorHandled(r) =>
       /\ ~runs'[r].isSimulationRunning
       /\ mounted' => simulationResult' = r
       /\ <<buffer', head', size'>> = <<buffer, head, size>>
       /\ animationIntervalId' # r \/ ~runs'[r].isSimulationRunning
       /\ ~smoothAnimationRef' \/ r \in stopTimers']_vars

\* the data points of the current run that failed the check
Unsafe == {k \in DataPoints : ~posted[k].data.checkResult.isSafe}

\* C24 (SpecSim): the linear sweep probes i * (1.2 * maxCurrent / precisionSteps)
\* for i = 0 .. precisionSteps in order and posts a data point for each probed
\* step; it stops at the first failing step and reports the current of the
\* step before it as safe current (0 when step 0 fails); when no step fails
\* the reported safe current is maxCurrent.
C24_LinearSweep ==
  values.algorithm = "iterative" =>
    /\ \A k \in DataPoints :
         /\ k <= E.precisionSteps + 1
         /\ posted[k].data.current = sweepCurrent(E, k - 1)
         /\ k \in Unsafe => (pc = "done" /\ Len(posted) = k + 1)
    /\ Done =>
         /\ posted[Len(posted)].type = "complete"
         /\ DataPoints = 1 .. Len(posted) - 1
         /\ \A k \in Unsafe :
              DoneResult.maxSafeCurrent =
                IF k = 1 THEN R(0) ELSE posted[k - 1].data.current
         /\ Unsafe = {} =>
              /\ Len(posted) = E.precisionSteps + 2
              /\ DoneResult.maxSafeCurrent = values.form.maxCurrent

\* the data points of the current run that passed the check
Passed == DataPoints \ Unsafe

C26_SingleLimitDecides ==
  \A k \in DataPoints :
    /\ values.form.simulationMode = "temp" =>
         (~posted[k].data.checkResult.isSafe <=> TemperatureExceeded(posted[k].data))
    /\ values.form.simulationMode = "budget" =>
         (~posted[k].data.checkResult.isSafe <=> CoolingBudgetExceeded(posted[k].data))

\* a temp-mode run in which a point passes above the power rating and a point
\* passes above the rated current
C26_Witness ==
  /\ values.form.simulationMode = "temp"
  /\ \E k \in Passed : PowerRatingExceeded(posted[k].data)
  /\ \E k \in Passed : RatedCurrentExceeded(posted[k].data)

\* C30 (SpecSim): in the single-limit modes the failure reason of a failed run
\* names the limit of the active mode: 'Thermal' in temp mode and
\* 'Cooling Budget' in budget mode, never another limit.
C30_ReasonNamesModeLimit ==
  (Done /\ Unsafe # {}) =>
    /\ values.form.simulationMode = "temp" => DoneResult.failureReason = "Thermal"
    /\ values.form.simulationMode = "budget" => DoneResult.failureReason = "Cooling Budget"

\* the 'complete' messages among the messages posted in the current run
Completes == {k \in 1 .. Len(posted) : posted[k].type = "complete"}

\* what holds of the messages of a run at every moment: no 'complete' while
\* the search is going on and one data point per probed current; exactly one
\* 'complete' once the run is done, and it is the last message
OneCompleteLast ==
  /\ pc \in {"iterLoop", "binLoop"} =>
       /\ Completes = {}
       /\ Cardinality(DataPoints) =
            IF values.algorithm = "iterative" THEN i ELSE iterationCount
  /\ pc = "done" =>
       /\ Completes = {Len(posted)}
       /\ Cardinality(DataPoints) =
            IF values.algorithm = "binary" THEN iterationCount
            ELSE IF Unsafe = {} THEN i ELSE i + 1

\* C27 (SpecSimFair): for every parameter set and both strategies the worker
\* terminates and posts exactly one 'complete' message per run; it is the last
\* message of the run, every 'dataPoint' precedes it, and one 'dataPoint' is
\* posted per probed current.
C27_TerminatesWithOneComplete ==
  /\ []OneCompleteLast
  /\ (pc = "start") ~> (pc = "done")

\* a sweep that ended at a failing step and a bisection that ran to its end
C27_Witness ==
  /\ Done
  /\ Cardinality(DataPoints) >= 3
  /\ values.algorithm = "binary"
  /\ results["iterative"] # Null
  /\ results["iterative"][1].failureReason # "null"

\* C27, the consumer's half (SpecApp): the main thread resolves a run at most
\* once, on the run's 'complete' message, and terminates the worker in the
\* same step; a resolved run stays resolved and gets no further message.
C27_ConsumerResolvesOnce ==
  [][\A r \in RunIds :
       /\ (runs[r].promise # "resolved" /\ runs'[r].promise = "resolved") =>
            /\ Head(runs[r].inflight).type = "complete"
            /\ runs'[r].worker = "terminated"
            /\ runs'[r].inflight = <<>>
       /\ runs[r].promise = "resolved" => runs'[r] = runs[r] \/ runs'[r].promise = "resolved"
       /\ runs[r].promise = "resolved" => runs'[r].inflight = <<>>]_vars

FreshRun(r) == r = nRuns /\ r > 1 /\ r \in sequential /\ runs[r].promise = "pending"

\* C22 (SpecApp): a run started after the previous run has completed behaves
\* as on a freshly initialised engine: the ring buffer displays points of the
\* new run only, the displayed result is none or the new run's, and nothing
\* the previous run left pending (its 500 ms render-loop stop) acts on the
\* render loop of the new run.
C22_NoResidualState ==
  [][\A r \in RunIds : FreshRun(r) =>
       /\ \A q \in 1 .. r - 1 : DisplayedOf(q) = {}
       /\ simulationResult \in {0, r}
       /\ \A k \in 1 .. Len(runs[r].rqueue) : runs[r].rqueue[k].run = r
       /\ \A q \in 1 .. r - 1 : StopTimer(q) => smoothAnimationRef' = smoothAnimationRef]_vars

\* the producer of run r has completed and the run's interval is still set
Draining(r) == runs[r].promise = "resolved" /\ animationIntervalId = r

Display(b) == [k \in 1 .. b.size |-> getDisplayData(b)[k][1]]

\* the buffer after the step
BufNext == [buffer |-> buffer', head |-> head', size |-> size']

\* a poll tick of run r that delivers a point
Delivers(r) == AnimationLoop(r) /\ renderTrigger' = renderTrigger + 1

\* C29 (SpecApp): in a binary run, after every poll tick that delivers a point
\* the display slice of the ring buffer is sorted by non-decreasing current
\* and holds the points it held before (without the oldest one when the
\* buffer was full) plus the new point; getCurrent is then the displayed point
\* with the largest current, which need not be the point just delivered.
C29_BinaryDisplaySorted ==
  [][\A r \in RunIds : (runs[r].algorithm = "binary" /\ Delivers(r)) =>
       LET before == Display(Buf)
           kept == IF size = capacity THEN Tail(before) ELSE before
           after == Display(BufNext)
           new == Head(runs[r].rqueue)
       IN  /\ \A k \in 1 .. Len(after) - 1 : after[k].current <= after[k + 1].current
           /\ Len(after) = Len(kept) + 1
           /\ Range(after) = Range(kept) \cup {new}
           /\ getCurrent(BufNext) # Null
           /\ \A k \in 1 .. Len(after) : after[k].current <= getCurrent(BufNext)[1].current]_vars

\* a binary run whose latest delivered point is displayed, but not as the
\* current point: a point delivered earlier has a larger current
C29_Witness ==
  \E r \in RunIds :
    /\ runs[r].algorithm = "binary"
    /\ animationIntervalId = r
    /\ size = capacity
    /\ \E k \in 1 .. size - 1 :
         /\ Display(Buf)[k].run = r
         /\ \A j \in 1 .. size : Display(Buf)[j].seq <= Display(Buf)[k].seq
         /\ Display(Buf)[k].current < getCurrent(Buf)[1].current

\* an animation frame taken while the ring buffer holds exactly one point
SinglePointFrame ==
  /\ frameTime' # frameTime
  /\ getCurrent(Buf) # Null
  /\ getPrevious(Buf) = Null

\* C23 (SpecRender): when the ring buffer holds a current point but no
\* previous point, the interpolation renderer emits that point with all its
\* fields unmodified and flagged isInterpolated = false.
C23_SinglePointPassedThrough ==
  [][SinglePointFrame =>
       /\ smoothDataStream' # <<>>
       /\ smoothDataStream'[Len(smoothDataStream')] =
            Stamped(getCurrent(Buf)[1], FALSE, frameTime')]_vars

====
